---------------------------- MODULE Spec2Model ----------------------------
(***************************************************************************)
(* Verification model of the incremental news harvester                    *)
(* (lorient_scraper.py, the961_scraper.py, main.py).                       *)
(*                                                                         *)
(* Remote world of the ID-space source (lorient):                          *)
(*   lastId    highest article id that exists; every id above it is 404    *)
(*   deadIds   ids at or below lastId that answer 404                      *)
(*   pageKind  what is special about single ids (partial function, an id   *)
(*             outside its domain is an ordinary good article):            *)
(*               "neterr"  every request for the id raises                 *)
(*               "away"    the id redirects outside the article domain     *)
(*               "nocanon" page without <link rel=canonical>               *)
(*               "nodate"  page without a parseable published_time         *)
(*               "notext"  page without article text                       *)
(*               "noschema" page without the yoast schema graph            *)
(*   dateStep  published date of id is dateStep * id (strictly ordered)    *)
(* Persisted state: toc (toc.json).                                        *)
(* call: the operation last applied and its result.                        *)
(* pm: one parse_many call: the futures not yet collected, the records     *)
(*     collected so far, and how the call stands.                          *)
(* dir: the batch files combine_lorient_json finds in the directory, each  *)
(*     the list of records stored in it.                                   *)
(* Remote world of the cursor-based source (the961):                       *)
(*   index       the post-sitemap entries of sitemap_index.xml, in the     *)
(*               order listed; entry n stands for post-sitemap<n>.xml      *)
(*   sitemapUrls the urls each sitemap lists                               *)
(*   downMaps    sitemaps get_html returns None for (0: the index itself)  *)
(* Persisted state of the961: toc961 (the961_toc.json).                    *)
(* Runs of main(): site is the scraper the behaviour runs, now the clock,  *)
(*     files the batch files written so far (name -> records), run the     *)
(*     last run: its operation, outcome, the stage that failed and the     *)
(*     checkpoints as they were when it started.                           *)
(***************************************************************************)
EXTENDS Integers, Sequences, FiniteSets, TLC

VARIABLES lastId, deadIds, pageKind, dateStep, toc, call, pm, dir,
          index, sitemapUrls, downMaps, toc961, files, run, now, site

vars == <<lastId, deadIds, pageKind, dateStep, toc, call, pm, dir,
          index, sitemapUrls, downMaps, toc961, files, run, now, site>>

\* what the runs of main() keep beside the two checkpoints
runs == <<files, run, now, site>>

\* the remote side of the961: the sitemap index and the sitemaps
maps == <<index, sitemapUrls, downMaps>>

world == <<lastId, deadIds, pageKind, dateStep>>

(* ------------------------------ bounds -------------------------------- *)
\* id of the hand-seeded checkpoint every behaviour starts from
SeedId == 100
\* how far above the seed the newest article may lie
MaxAhead == 66
\* how far above the seed a request may fail with a network error
MaxErr == 12
\* how far below the seed articles exist
MaxBack == 40
\* candidates handed to one parse_many call in SpecPM
MaxCand == 3
\* records in one batch file in SpecMerge
MaxBatchLen == 2
\* highest sitemap number the cursor may have in SpecWalk
MaxSitemap == 11
\* Spec: how far above the seed the newest article may lie
RunAhead == 13
\* Spec: longest run of Gone ids right above the seed
RunGap == 11
\* Spec: runs in one behaviour
MaxRuns == 2
\* SpecFL, SpecFB: longest run of consecutive Gone ids among existing ones
MaxGoneRun == 3
\* SpecCap: how far beyond the seed + 2^20 the newest article may lie
CapAhead == 1

FirstId == SeedId - MaxBack

(* --------------------------- program constants ------------------------ *)
LookAheadSpan == 10
CapOffset == 2097152
FallbackOffset == 1048576
StartWidth == 16
RecursionLimit == 1000

(* ------------------------------ results ------------------------------- *)
\* a returned value, a returned None, an exception leaving the function
Ret(v) == [tag |-> "ok", val |-> v]
RetNone == [tag |-> "none", val |-> 0]
Raised == [tag |-> "raise", val |-> 0]

NoCall == [op |-> "none"]

(* ------------------------------ the site ------------------------------ *)
PageKind(id) == IF id \in DOMAIN pageKind THEN pageKind[id] ELSE "good"

Exists(id) == id >= FirstId /\ id <= lastId /\ id \notin deadIds

pubDate(id) == dateStep * id

\* status of a HEAD request (redirects are not followed)
HeadStatus(id) ==
    IF PageKind(id) = "neterr" THEN "error"
    ELSE IF ~Exists(id) THEN "404"
    ELSE IF PageKind(id) = "away" THEN "301"
    ELSE "200"

(* ------------------- lorient_scraper.py: find_latest ------------------ *)
test_id(article_id) ==
    IF HeadStatus(article_id) \in {"404", "200", "301"}
    THEN HeadStatus(article_id)
    ELSE "raise"

\* the look-ahead loop of find_latest (not inside a try): "escape" is an
\* exception of test_id leaving find_latest
RECURSIVE look_ahead(_, _)
look_ahead(id, i) ==
    IF i > LookAheadSpan THEN "404"
    ELSE LET check_code == test_id(id + i)
         IN  IF check_code = "raise" THEN "escape"
             ELSE IF check_code # "404" THEN check_code
             ELSE look_ahead(id, i + 1)

\* the second loop of find_latest
RECURSIVE refine(_, _)
refine(bottom, top) ==
    IF top - 1 = bottom THEN Ret(bottom)
    ELSE LET searcher == bottom + ((top - bottom) \div 2)
             code == test_id(searcher)
         IN  IF code = "raise" THEN RetNone
             ELSE IF code = "404" THEN refine(bottom, searcher)
             ELSE refine(searcher, top)

\* the first loop of find_latest, entered with the current searcher
RECURSIVE doubling(_, _)
doubling(start_id, searcher) ==
    LET first == test_id(start_id + searcher)
    IN  IF first = "raise" THEN RetNone
        ELSE LET code == IF first = "404"
                         THEN look_ahead(start_id + searcher, 1)
                         ELSE first
             IN  IF code = "escape" THEN Raised
                 ELSE IF code = "404"
                 THEN refine((searcher \div 2) + start_id, searcher + start_id)
                 ELSE IF searcher * 2 = CapOffset
                 THEN Ret(start_id + FallbackOffset)
                 ELSE doubling(start_id, searcher * 2)

find_latest_from2(start_id) == doubling(start_id, 2)

find_latest(start_id) == doubling(start_id, 1)

(* ------------- lorient_scraper.py: test_date, find_backwards ---------- *)
\* A 404 recurses to id + 1 without bound.  Every id above lastId is 404, so
\* the recursion from there never returns and ends in RecursionError; below
\* FirstId it climbs to FirstId unless that is deeper than the interpreter's
\* recursion limit.  A page that landed outside the article domain carries
\* no published_time, like a "nodate" page: strptime(None) raises.
RECURSIVE test_date(_)
test_date(article_id) ==
    IF article_id > lastId THEN Raised
    ELSE IF article_id < FirstId
    THEN IF FirstId - article_id >= RecursionLimit THEN Raised
         ELSE test_date(FirstId)
    ELSE IF PageKind(article_id) = "neterr" THEN Raised
    ELSE IF ~Exists(article_id) THEN test_date(article_id + 1)
    ELSE IF PageKind(article_id) \in {"nodate", "away"} THEN Raised
    ELSE Ret(pubDate(article_id))

\* the ids test_date sends a GET for, the recursive calls included (the
\* cases of test_date in the same order)
RECURSIVE test_date_requests(_)
test_date_requests(article_id) ==
    IF article_id > lastId THEN article_id .. (article_id + RecursionLimit - 1)
    ELSE IF article_id < FirstId
    THEN IF FirstId - article_id >= RecursionLimit
         THEN article_id .. (article_id + RecursionLimit - 1)
         ELSE (article_id .. (FirstId - 1)) \cup test_date_requests(FirstId)
    ELSE IF PageKind(article_id) = "neterr" THEN {article_id}
    ELSE IF ~Exists(article_id) THEN {article_id} \cup test_date_requests(article_id + 1)
    ELSE {article_id}

\* the second loop of find_backwards
RECURSIVE narrow(_, _, _)
narrow(bottom, top, target_date) ==
    IF top - bottom > 1
    THEN LET guessid == bottom + ((top - bottom) \div 2)
             d == test_date(guessid)
         IN  IF d.tag = "raise" THEN Raised
             ELSE IF d.val > target_date THEN narrow(bottom, guessid, target_date)
             ELSE narrow(guessid, top, target_date)
    ELSE Ret(bottom)

\* the first loop of find_backwards and the bracket it hands to the second
RECURSIVE widen(_, _, _)
widen(top, width, target_date) ==
    LET d == test_date(top - width)
    IN  IF d.tag = "raise" THEN Raised
        ELSE IF d.val > target_date THEN widen(top, width * 2, target_date)
        ELSE narrow(top - width, (top - width) + (width \div 2), target_date)

find_backwards(top, top_date, target_date) == widen(top, StartWidth, target_date)

(* ------------- get_html, parse_article, thread_worker ----------------- *)
\* site is "lorient" or "the961".  A the961 url is modelled by a number too;
\* it answers 404 exactly when it is in deadIds.
UrlGone(which, id) == IF which = "lorient" THEN ~Exists(id) ELSE id \in deadIds

\* get_html of either scraper: TRUE when a page is returned, FALSE for None
get_html(which, id) ==
    IF PageKind(id) = "neterr" THEN FALSE
    ELSE IF UrlGone(which, id) THEN FALSE
    ELSE IF PageKind(id) = "away" THEN FALSE
    ELSE TRUE

Article(id, dated, text) == [id |-> id, title |-> id, dated |-> dated, text |-> text]

\* lorient parse_article: article_langauge subscripts the missing canonical
\* link (TypeError leaves parse_article); a published_time that does not
\* parse is logged and the record simply lacks 'datetime'
lorient_parse_article(id) ==
    IF PageKind(id) = "nocanon" THEN Raised
    ELSE Ret(Article(id, PageKind(id) # "nodate", PageKind(id) # "notext"))

\* the961 parse_article: every extraction failure raises ValidationError
the961_parse_article(id) ==
    IF PageKind(id) \in {"noschema", "nodate"} THEN Raised
    ELSE Ret(Article(id, TRUE, PageKind(id) # "notext"))

NoArticle == [tag |-> "ok", hasArticle |-> FALSE, article |-> Article(0, FALSE, FALSE)]
WithArticle(a) == [tag |-> "ok", hasArticle |-> TRUE, article |-> a]
WorkerRaised == [tag |-> "raise", hasArticle |-> FALSE, article |-> Article(0, FALSE, FALSE)]

lorient_thread_worker(id) ==
    IF ~get_html("lorient", id) THEN NoArticle
    ELSE LET parsed == lorient_parse_article(id)
         IN  IF parsed.tag = "raise" THEN WorkerRaised
             ELSE IF ~parsed.val.text THEN NoArticle
             ELSE WithArticle(parsed.val)

\* the ValidationError is caught and replaced by {'text': ''}
the961_thread_worker(id) ==
    IF ~get_html("the961", id) THEN NoArticle
    ELSE LET parsed == the961_parse_article(id)
             article == IF parsed.tag = "raise" THEN Article(id, FALSE, FALSE)
                        ELSE parsed.val
         IN  IF ~article.text THEN NoArticle ELSE WithArticle(article)

thread_worker(which, id) ==
    IF which = "lorient" THEN lorient_thread_worker(id) ELSE the961_thread_worker(id)

PmIdle == [status |-> "idle", site |-> "none", submitted |-> {}, pending |-> {},
           parsed_list |-> <<>>]

(* --------------- the961_scraper.py: crawl_all_the961 ------------------ *)
\* int(re.search(r'(\d)\.xml', name).groups()[0]): the one digit in front
\* of ".xml"
sitemap_index(sitemap) == sitemap % 10

\* crawl_sitemap_the961: get_html returning None makes page.text raise
crawl_sitemap_the961(sitemap) ==
    IF sitemap \in downMaps THEN Raised ELSE Ret(sitemapUrls[sitemap])

\* The for loop over maps, from entry i.  st.parsed is the set object
\* parsed_articles, st.newp what new_parsed refers to; while st.alias they
\* are one object (line 227), so update() through new_parsed changes both.
RECURSIVE crawl_loop(_, _, _)
crawl_loop(current_map, i, st) ==
    IF i > Len(index)
    THEN Ret([articles |-> st.articles,
              toc |-> [current_sitemap |-> st.hi_map,
                       completed_sitemaps |-> st.completed,
                       parsed_articles |-> st.newp]])
    ELSE LET sitemap == index[i]
             got == crawl_sitemap_the961(sitemap)
             urls == got.val
         IN  IF sitemap = current_map
             THEN IF got.tag = "raise" THEN Raised
                  ELSE crawl_loop(current_map, i + 1,
                         [st EXCEPT !.articles = @ \cup (urls \ st.parsed),
                                    !.parsed = IF st.alias THEN @ \cup urls ELSE @,
                                    !.newp = @ \cup urls])
             ELSE IF sitemap \notin st.completed
             THEN IF got.tag = "raise" THEN Raised
                  ELSE IF sitemap_index(sitemap) > st.hi_index
                  THEN crawl_loop(current_map, i + 1,
                         [st EXCEPT !.articles = @ \cup urls,
                                    !.completed = @ \cup {st.hi_map},
                                    !.hi_index = sitemap_index(sitemap),
                                    !.hi_map = sitemap,
                                    !.newp = urls,
                                    !.alias = FALSE])
                  ELSE crawl_loop(current_map, i + 1,
                         [st EXCEPT !.articles = @ \cup urls,
                                    !.completed = @ \cup {sitemap}])
             ELSE crawl_loop(current_map, i + 1, st)

crawl_all_the961_forgetting_seen(t) ==
    IF 0 \in downMaps THEN Raised
    ELSE crawl_loop(t.current_sitemap, 1,
                    [articles |-> {},
                     parsed |-> {},
                     newp |-> t.parsed_articles,
                     alias |-> TRUE,
                     completed |-> t.completed_sitemaps,
                     hi_index |-> sitemap_index(t.current_sitemap),
                     hi_map |-> t.current_sitemap])

\* t is the961_toc.json as read; the result is (articles, toc) or the
\* exception of a sitemap that could not be fetched
crawl_all_the961(t) ==
    IF 0 \in downMaps THEN Raised
    ELSE crawl_loop(t.current_sitemap, 1,
                    [articles |-> {},
                     parsed |-> t.parsed_articles,
                     newp |-> t.parsed_articles,
                     alias |-> TRUE,
                     completed |-> t.completed_sitemaps,
                     hi_index |-> sitemap_index(t.current_sitemap),
                     hi_map |-> t.current_sitemap])

\* a behaviour of the lorient scraper does not touch the961
NoThe961 ==
    /\ index = <<>>
    /\ sitemapUrls = <<>>
    /\ downMaps = {}
    /\ toc961 = [current_sitemap |-> 1, completed_sitemaps |-> {}, parsed_articles |-> {}]

(* ---------------- scrape_latest, scrape_backwards --------------------- *)
\* What parse_many hands back for a candidate set: the exception of a
\* worker, or the records (their order is the workers' completion order,
\* which SpecPM follows step by step; a batch is kept here as a set).
parse_many(s, ids) ==
    IF \E id \in ids : thread_worker(s, id).tag = "raise" THEN Raised
    ELSE Ret({thread_worker(s, id).article :
                 id \in {i \in ids : thread_worker(s, i).hasArticle}})

\* The stage of a run that raises after the boundary search or the sitemap
\* walk, "none" when none does: min() of an empty timing list; the
\* article['datetime'] of a record without one; the batch file write.
failing_stage(harvest, io_ok) ==
    IF harvest.tag = "raise" THEN "harvest"
    ELSE IF harvest.val = {} THEN "timing"
    ELSE IF \E a \in harvest.val : ~a.dated THEN "write"
    ELSE IF ~io_ok THEN "write"
    ELSE "none"

Failed(stage, old_toc) ==
    [outcome |-> "failed", stage |-> stage, toc |-> old_toc,
     wrote |-> FALSE, name |-> <<>>, batch |-> {}]

run_result_saving_early(stage, old_toc, new_toc, name, batch) ==
    IF stage = "none"
    THEN [outcome |-> "ok", stage |-> "none", toc |-> new_toc,
          wrote |-> TRUE, name |-> name, batch |-> batch]
    ELSE IF stage = "write" THEN Failed(stage, new_toc)
    ELSE Failed(stage, old_toc)

\* the end of a run: the batch file is written, then the checkpoint
run_result(stage, old_toc, new_toc, name, batch) ==
    IF stage = "none"
    THEN [outcome |-> "ok", stage |-> "none", toc |-> new_toc,
          wrote |-> TRUE, name |-> name, batch |-> batch]
    ELSE Failed(stage, old_toc)

\* the candidates a run handed to parse_many, kept with the run's result
Submitting(ids) == [ids |-> ids]

scrape_latest_keeping_max_id(t, clock, io_ok) ==
    LET max_id == t.max_id
        latest_id == find_latest(max_id)
    IN  IF latest_id.tag # "ok" THEN Failed("search", t) @@ Submitting({})
        ELSE LET article_ids == max_id .. latest_id.val
                 harvest == parse_many("lorient", article_ids)
             IN  run_result(failing_stage(harvest, io_ok), t,
                            [t EXCEPT !.max_id = max_id, !.max_datetime = clock],
                            <<"lorient", max_id + 1, latest_id.val>>, harvest.val)
                    @@ Submitting(article_ids)

scrape_latest_failing_at_cap(t, clock, io_ok) ==
    LET max_id == t.max_id
        latest_id == find_latest(max_id)
    IN  IF latest_id.tag # "ok" \/ latest_id.val = max_id + FallbackOffset
        THEN Failed("search", t) @@ Submitting({})
        ELSE LET article_ids == max_id .. latest_id.val
                 harvest == parse_many("lorient", article_ids)
             IN  run_result(failing_stage(harvest, io_ok), t,
                            [t EXCEPT !.max_id = latest_id.val, !.max_datetime = clock],
                            <<"lorient", max_id + 1, latest_id.val>>, harvest.val)
                    @@ Submitting(article_ids)

scrape_latest_skipping_an_id(t, clock, io_ok) ==
    LET max_id == t.max_id
        latest_id == find_latest(max_id)
    IN  IF latest_id.tag # "ok" THEN Failed("search", t) @@ Submitting({})
        ELSE LET article_ids == (max_id + 2) .. latest_id.val
                 harvest == parse_many("lorient", article_ids)
             IN  run_result(failing_stage(harvest, io_ok), t,
                            [t EXCEPT !.max_id = latest_id.val, !.max_datetime = clock],
                            <<"lorient", max_id + 1, latest_id.val>>, harvest.val)
                    @@ Submitting(article_ids)

\* t is toc.json as read.  latest_id None makes latest_id + 1 raise.
\* article_ids is range(max_id, latest_id + 1).
scrape_latest(t, clock, io_ok) ==
    LET max_id == t.max_id
        latest_id == find_latest(max_id)
    IN  IF latest_id.tag # "ok" THEN Failed("search", t) @@ Submitting({})
        ELSE LET article_ids == max_id .. latest_id.val
                 harvest == parse_many("lorient", article_ids)
             IN  run_result(failing_stage(harvest, io_ok), t,
                            [t EXCEPT !.max_id = latest_id.val, !.max_datetime = clock],
                            <<"lorient", max_id + 1, latest_id.val>>, harvest.val)
                    @@ Submitting(article_ids)

\* article_ids is range(first_id, min_id)
scrape_backwards(t, cutoff, io_ok) ==
    LET min_id == t.min_id
        first_id == find_backwards(min_id, t.min_datetime, cutoff)
    IN  IF first_id.tag # "ok" THEN Failed("search", t) @@ Submitting({})
        ELSE LET article_ids == first_id.val .. (min_id - 1)
                 harvest == parse_many("lorient", article_ids)
             IN  run_result(failing_stage(harvest, io_ok), t,
                            [t EXCEPT !.min_id = first_id.val, !.min_datetime = cutoff],
                            <<"lorient", first_id.val, min_id>>, harvest.val)
                    @@ Submitting(article_ids)

the961_scrape_latest_saving_read_toc(t, clock, io_ok) ==
    LET crawled == crawl_all_the961(t)
    IN  IF crawled.tag # "ok" THEN Failed("search", t) @@ Submitting({})
        ELSE LET harvest == parse_many("the961", crawled.val.articles)
             IN  run_result(failing_stage(harvest, io_ok), t, t,
                            <<"the961", clock>>, harvest.val)
                    @@ Submitting(crawled.val.articles)

\* the961 scrape_latest; t is the961_toc.json as crawl_all_the961 reads it
the961_scrape_latest(t, clock, io_ok) ==
    LET crawled == crawl_all_the961(t)
    IN  IF crawled.tag # "ok" THEN Failed("search", t) @@ Submitting({})
        ELSE LET harvest == parse_many("the961", crawled.val.articles)
             IN  run_result(failing_stage(harvest, io_ok), t, crawled.val.toc,
                            <<"the961", clock>>, harvest.val)
                    @@ Submitting(crawled.val.articles)

NoRun == [op |-> "none", outcome |-> "none", stage |-> "none", at |-> 0,
          name |-> <<>>, ids |-> {}, pre |-> <<>>, pre961 |-> <<>>]

NoRuns ==
    /\ files = <<>>
    /\ run = NoRun
    /\ now = 0
    /\ site = "none"

(* ----------------- specification SpecFL: find_latest ------------------ *)
\* the hand-seeded toc.json: both frontiers at the seed article
SeedToc(step) == [max_id |-> SeedId, max_datetime |-> step * SeedId,
                  min_id |-> SeedId, min_datetime |-> step * SeedId]

InitFL ==
    /\ dateStep = 1
    /\ toc = SeedToc(dateStep)
    /\ lastId \in SeedId .. (SeedId + MaxAhead)
    /\ deadIds \in {{}} \cup {{i \in d .. (d + g - 1) : i <= lastId} :
                                d \in (SeedId + 1) .. lastId, g \in 1 .. MaxGoneRun}
    /\ pageKind \in {<<>>} \cup {(e :> "neterr") : e \in (SeedId + 1) .. (SeedId + MaxErr)}
    /\ call = NoCall
    /\ pm = PmIdle
    /\ dir = <<>>
    /\ NoThe961
    /\ NoRuns

FindLatestCall ==
    /\ call.op = "none"
    /\ call' = [op |-> "find_latest", start |-> toc.max_id,
                res |-> find_latest(toc.max_id)]
    /\ UNCHANGED <<world, toc, pm, dir, maps, toc961, runs>>

NextFL == FindLatestCall

SpecFL == InitFL /\ [][NextFL]_vars

\* C1: with every id up to lastId Found, every id above it Gone and no probe
\* raising, find_latest(start_id) returns lastId (= start_id + k - 1).
C1_ForwardBoundary ==
    (call.op = "find_latest" /\ deadIds = {} /\ pageKind = <<>>)
        => call.res = Ret(lastId)

C1_Witness ==
    /\ call.op = "find_latest" /\ deadIds = {} /\ pageKind = <<>>
    /\ lastId = call.start + 36
    /\ call.res = Ret(lastId)

\* C2: one isolated Gone id d inside the valid run (d+1 .. d+10 Found, the
\* run ends beyond d+10) does not change the result: find_latest still
\* returns lastId.
C2_GapTolerance ==
    (/\ call.op = "find_latest" /\ pageKind = <<>>
     /\ \E d \in (SeedId + 1) .. lastId : deadIds = {d} /\ d + LookAheadSpan <= lastId)
        => call.res = Ret(lastId)

\* C12: a probe of find_latest that raises (a doubling probe, one of the
\* look-ahead probes or a refinement probe) makes find_latest return None;
\* no exception leaves find_latest.
C12_ProbeErrorReturnsNone ==
    call.op = "find_latest" => call.res.tag # "raise"

\* the doubling and the refinement probes do return None: with no Gone id
\* below the boundary and the failing id not above it, no look-ahead probe
\* meets the failing id
C12_HoldsOutsideLookAhead ==
    (/\ call.op = "find_latest" /\ deadIds = {}
     /\ \A e \in DOMAIN pageKind : e <= lastId)
        => call.res.tag # "raise"

\* find_latest returned the bottom of its refinement bracket
ReturnedByRefinement ==
    /\ call.op = "find_latest" /\ call.res.tag = "ok"
    /\ call.res.val # call.start + FallbackOffset

\* C19: an id find_latest returns through the refinement is start_id or an
\* id that answers Found; it is never an id that answers Gone.
C19_BoundaryConfirmedExisting ==
    ReturnedByRefinement =>
       (call.res.val = call.start \/ HeadStatus(call.res.val) # "404")

\* with no Gone id among the existing ones the returned id does exist
C19_HoldsWithoutGoneIds ==
    (ReturnedByRefinement /\ deadIds = {}) =>
       (call.res.val = call.start \/ HeadStatus(call.res.val) # "404")

(* --------------- specification SpecFB: find_backwards ----------------- *)
InitFB ==
    /\ dateStep \in 1 .. 2
    /\ toc = SeedToc(dateStep)
    /\ lastId = SeedId + 2
    /\ deadIds \in {{}} \cup {{i \in d .. (d + g - 1) : i < SeedId} :
                                d \in FirstId .. (SeedId - 1), g \in 1 .. MaxGoneRun}
    /\ pageKind \in {<<>>} \cup {(e :> k) : e \in {SeedId - StartWidth, SeedId - 12},
                                              k \in {"neterr", "nodate"}}
    /\ call \in {[op |-> "none", target |-> t] :
                    t \in (dateStep * FirstId - 2) .. (dateStep * SeedId + 2)}
    /\ pm = PmIdle
    /\ dir = <<>>
    /\ NoThe961
    /\ NoRuns

FindBackwardsCall ==
    /\ call.op = "none"
    /\ call' = [op |-> "find_backwards", top |-> toc.min_id, target |-> call.target,
                res |-> find_backwards(toc.min_id, toc.min_datetime, call.target)]
    /\ UNCHANGED <<world, toc, pm, dir, maps, toc961, runs>>

\* test_date asked for an id that is Gone, or for the first id
\* find_backwards asks it for
TestDateCall ==
    /\ call.op = "none"
    /\ \E article_id \in deadIds \cup {SeedId - StartWidth} :
          call' = [op |-> "test_date", id |-> article_id,
                   res |-> test_date(article_id),
                   requests |-> test_date_requests(article_id)]
    /\ UNCHANGED <<world, toc, pm, dir, maps, toc961, runs>>

NextFB == FindBackwardsCall \/ TestDateCall

SpecFB == InitFB /\ [][NextFB]_vars

\* C3: with dates strictly ordered by id, no Gone id, date(top) > target_date
\* and some id below top dated <= target_date, find_backwards returns the id
\* b with date(b) <= target_date < date(b+1), wherever b lies below top.
C3_BackwardBoundary ==
    (/\ call.op = "find_backwards" /\ deadIds = {} /\ pageKind = <<>>
     /\ pubDate(call.top) > call.target
     /\ pubDate(FirstId) <= call.target)
        => /\ call.res.tag = "ok"
           /\ pubDate(call.res.val) <= call.target
           /\ call.target < pubDate(call.res.val + 1)

\* where the code does meet C3: b at least 9 ids below top
C3_HoldsBelowFirstBracket ==
    (/\ call.op = "find_backwards" /\ deadIds = {} /\ pageKind = <<>>
     /\ pubDate(call.top - (StartWidth \div 2)) > call.target
     /\ pubDate(FirstId) <= call.target)
        => /\ call.res.tag = "ok"
           /\ pubDate(call.res.val) <= call.target
           /\ call.target < pubDate(call.res.val + 1)

\* C13: test_date asked for a Gone id requests id + 1 and nothing beyond it,
\* however many Gone ids follow one another.
C13_SingleStepRecovery ==
    (call.op = "test_date" /\ HeadStatus(call.id) = "404")
        => call.requests \subseteq {call.id, call.id + 1}

\* after an isolated Gone id the recovery does stop at id + 1
C13_HoldsForIsolatedGone ==
    (call.op = "test_date" /\ HeadStatus(call.id) = "404"
       /\ HeadStatus(call.id + 1) # "404")
        => call.requests = {call.id, call.id + 1}

(* ------------------ specification SpecPM: parse_many ------------------ *)
Candidates == (SeedId + 1) .. (SeedId + MaxCand)

PageKinds == {"good", "neterr", "away", "nocanon", "nodate", "notext", "noschema"}

InitPM ==
    /\ dateStep = 1
    /\ toc = SeedToc(dateStep)
    /\ lastId = SeedId + MaxCand
    /\ deadIds \in {{}} \cup {{d} : d \in Candidates}
    /\ pageKind \in [Candidates -> PageKinds]
    /\ call = NoCall
    /\ pm = PmIdle
    /\ dir = <<>>
    /\ NoThe961
    /\ NoRuns

\* executor.submit for every candidate
ParseManySubmit ==
    /\ pm.status = "idle"
    /\ \E scraper \in {"lorient", "the961"} :
          pm' = [status |-> "running", site |-> scraper, submitted |-> Candidates,
                 pending |-> Candidates, parsed_list |-> <<>>]
    /\ UNCHANGED <<world, toc, call, dir, maps, toc961, runs>>

\* one turn of the as_completed loop: any future not yet collected may be the
\* next to complete; future.result() re-raises the worker's exception, which
\* leaves parse_many
ParseManyCollect ==
    /\ pm.status = "running"
    /\ \E c \in pm.pending :
          LET results == thread_worker(pm.site, c)
          IN  pm' = IF results.tag = "raise"
                    THEN [pm EXCEPT !.status = "raised", !.pending = @ \ {c}]
                    ELSE [pm EXCEPT !.pending = @ \ {c},
                                    !.parsed_list =
                                        IF results.hasArticle
                                        THEN Append(@, results.article) ELSE @]
    /\ UNCHANGED <<world, toc, call, dir, maps, toc961, runs>>

ParseManyReturnBeforeBarrier ==
    /\ pm.status = "running"
    /\ pm' = [pm EXCEPT !.status = "returned"]
    /\ UNCHANGED <<world, toc, call, dir, maps, toc961, runs>>

\* the as_completed loop has handed out every future and the executor's
\* with block is left
ParseManyReturn ==
    /\ pm.status = "running"
    /\ pm.pending = {}
    /\ pm' = [pm EXCEPT !.status = "returned"]
    /\ UNCHANGED <<world, toc, call, dir, maps, toc961, runs>>

NextPM == ParseManySubmit \/ ParseManyCollect \/ ParseManyReturn

SpecPM == InitPM /\ [][NextPM]_vars

Returned(id) == \E i \in 1 .. Len(pm.parsed_list) : pm.parsed_list[i].id = id

TransportFails(which, id) == PageKind(id) \in {"neterr", "away"} \/ UrlGone(which, id)

ExtractionFails(which, id) ==
    /\ ~TransportFails(which, id)
    /\ \/ PageKind(id) = "nodate"
       \/ which = "lorient" /\ PageKind(id) = "nocanon"
       \/ which = "the961" /\ PageKind(id) = "noschema"

Succeeds(which, id) ==
    /\ ~TransportFails(which, id)
    /\ ~ExtractionFails(which, id)
    /\ PageKind(id) # "notext"

\* C4: in both scrapers a candidate whose extraction fails is degraded to an
\* empty result (no record of it is returned), no exception leaves
\* parse_many, and every other candidate's record is returned.
C4_ExtractorIsolation ==
    /\ pm.status # "raised"
    /\ pm.status = "returned" =>
          \A c \in pm.submitted :
             /\ ExtractionFails(pm.site, c) => ~Returned(c)
             /\ Succeeds(pm.site, c) => Returned(c)

\* the961 alone meets C4
C4_HoldsForThe961 ==
    pm.site = "the961" =>
       /\ pm.status # "raised"
       /\ pm.status = "returned" =>
             \A c \in pm.submitted :
                /\ ExtractionFails(pm.site, c) => ~Returned(c)
                /\ Succeeds(pm.site, c) => Returned(c)

\* C5: a candidate whose fetch fails (network exception, 404, off-domain
\* redirect) yields no record, and when parse_many has ended every other
\* candidate whose fetch and extraction succeeded has its record returned.
C5_TransportIsolation ==
    pm.status \in {"returned", "raised"} =>
       \A c \in pm.submitted :
          /\ TransportFails(pm.site, c) => ~Returned(c)
          /\ (Succeeds(pm.site, c) /\ \E d \in pm.submitted : TransportFails(pm.site, d))
                => pm.status = "returned" /\ Returned(c)

\* the step-by-step parse_many ends as parse_many(s, ids) says, whatever the
\* order in which the workers complete
PM_AgreesWithResult ==
    /\ pm.status = "returned" =>
          /\ parse_many(pm.site, pm.submitted).tag = "ok"
          /\ {pm.parsed_list[i] : i \in 1 .. Len(pm.parsed_list)}
                = parse_many(pm.site, pm.submitted).val
    /\ pm.status = "raised" => parse_many(pm.site, pm.submitted).tag = "raise"

\* transport failures alone never cost another candidate its record
C5_HoldsWithoutRaisingWorker ==
    (pm.status \in {"returned", "raised"}
       /\ \A c \in pm.submitted : thread_worker(pm.site, c).tag # "raise") =>
       /\ pm.status = "returned"
       /\ \A c \in pm.submitted :
             /\ TransportFails(pm.site, c) => ~Returned(c)
             /\ Succeeds(pm.site, c) => Returned(c)

\* the page of candidate id was fetched and the text extracted from it is
\* not empty
YieldsText(which, id) ==
    /\ ~TransportFails(which, id)
    /\ PageKind(id) # "notext"
    /\ which = "the961" => PageKind(id) \notin {"noschema", "nodate"}

RecordsOf(id) == {i \in 1 .. Len(pm.parsed_list) : pm.parsed_list[i].id = id}

NoWorkerRaises == \A c \in pm.submitted : thread_worker(pm.site, c).tag # "raise"

\* C17: when no worker raises, parse_many does return, it returns only when
\* every submitted candidate has completed, and whatever the completion
\* order the returned list holds exactly one record for each candidate
\* whose fetch succeeded and whose text is not empty, and none for any other.
C17_PipelineBarrier ==
    NoWorkerRaises =>
       /\ pm.status # "raised"
       /\ pm.status = "returned" =>
             /\ pm.pending = {}
             /\ \A c \in pm.submitted :
                   Cardinality(RecordsOf(c)) = IF YieldsText(pm.site, c) THEN 1 ELSE 0
             /\ \A i \in 1 .. Len(pm.parsed_list) : pm.parsed_list[i].id \in pm.submitted

\* returned with the records in another order than the candidates were
\* submitted in, one candidate having failed to fetch
C17_Witness ==
    /\ pm.status = "returned" /\ NoWorkerRaises
    /\ Len(pm.parsed_list) = MaxCand - 1
    /\ pm.parsed_list[1].id > pm.parsed_list[2].id
    /\ \E c \in pm.submitted : TransportFails(pm.site, c)

\* C23: every record that lorient parse_many returns carries 'datetime'.
C23_EveryRecordDated ==
    (pm.status = "returned" /\ pm.site = "lorient") =>
        \A i \in 1 .. Len(pm.parsed_list) : pm.parsed_list[i].dated

\* the records the961 parse_many returns all carry it: there a missing
\* published time raises in parse_article and the candidate is dropped
C23_HoldsForThe961 ==
    (pm.status = "returned" /\ pm.site = "the961") =>
        \A i \in 1 .. Len(pm.parsed_list) : pm.parsed_list[i].dated

(* ------------- lorient_scraper.py: combine_lorient_json --------------- *)
\* the for loop over lorient_files, from position i of the listing
RECURSIVE combine_loop(_, _, _, _)
combine_loop(lorient_files, i, all_titles, all_articles) ==
    IF i > Len(lorient_files) THEN all_articles
    ELSE LET l_arts == dir[lorient_files[i]]
             titleset == {l_arts[k].title : k \in 1 .. Len(l_arts)} \ all_titles
             Keep(article) == article.title \in titleset
         IN  combine_loop(lorient_files, i + 1, all_titles \cup titleset,
                          all_articles \o SelectSeq(l_arts, Keep))

\* sorted(..., key=datetime) is stable: a record goes behind every record
\* already placed whose datetime is not later
RECURSIVE insert_by_datetime(_, _)
insert_by_datetime(placed, article) ==
    IF placed = <<>> THEN <<article>>
    ELSE IF placed[Len(placed)].datetime <= article.datetime
    THEN Append(placed, article)
    ELSE Append(insert_by_datetime(SubSeq(placed, 1, Len(placed) - 1), article),
                placed[Len(placed)])

RECURSIVE sorted_by_datetime(_, _)
sorted_by_datetime(articles_list, n) ==
    IF n = 0 THEN <<>>
    ELSE insert_by_datetime(sorted_by_datetime(articles_list, n - 1), articles_list[n])

\* lorient_files is the directory listing, in the order os.listdir gave it
combine_lorient_json(lorient_files) ==
    LET all_articles == combine_loop(lorient_files, 1, {}, <<>>)
    IN  sorted_by_datetime(all_articles, Len(all_articles))

(* ------------ specification SpecMerge: combine_lorient_json ----------- *)
FileNames == {"lorient-101-103.json", "lorient-102-104.json"}

Titles == {"A", "B"}

Dates == {1, 2}

StoredRecords == [title : Titles, datetime : Dates]

StoredBatches == UNION {[1 .. n -> StoredRecords] : n \in 0 .. MaxBatchLen}

Listings == {<<f, g>> : f, g \in FileNames} \ {<<f, f>> : f \in FileNames}

InitMerge ==
    /\ dateStep = 1
    /\ toc = SeedToc(dateStep)
    /\ lastId = SeedId
    /\ deadIds = {}
    /\ pageKind = <<>>
    /\ call = NoCall
    /\ pm = PmIdle
    /\ dir \in [FileNames -> StoredBatches]
    /\ NoThe961
    /\ NoRuns

CombineCall ==
    /\ call.op = "none"
    /\ \E lorient_files \in Listings :
          call' = [op |-> "combine", listing |-> lorient_files,
                   res |-> combine_lorient_json(lorient_files)]
    /\ UNCHANGED <<world, toc, pm, dir, maps, toc961, runs>>

NextMerge == CombineCall

SpecMerge == InitMerge /\ [][NextMerge]_vars

\* the records of all batches in enumeration order
Enumerated(listing) == dir[listing[1]] \o dir[listing[2]]

Positions(seq, title) == {i \in 1 .. Len(seq) : seq[i].title = title}

FirstSeen(seq, title) ==
    seq[CHOOSE i \in Positions(seq, title) : \A j \in Positions(seq, title) : i <= j]

\* C6: the corpus holds each distinct title of the batches exactly once, and
\* the surviving record is the first one met in enumeration order.
C6_MergerDedup ==
    call.op = "combine" =>
       \A t \in Titles :
          Positions(Enumerated(call.listing), t) # {} =>
             /\ Cardinality(Positions(call.res, t)) = 1
             /\ FirstSeen(call.res, t) = FirstSeen(Enumerated(call.listing), t)

\* the code does meet C6 when no batch holds a title twice
C6_HoldsWithoutInternalDuplicates ==
    (/\ call.op = "combine"
     /\ \A f \in FileNames : \A t \in Titles : Cardinality(Positions(dir[f], t)) <= 1)
       => \A t \in Titles :
             Positions(Enumerated(call.listing), t) # {} =>
                /\ Cardinality(Positions(call.res, t)) = 1
                /\ FirstSeen(call.res, t) = FirstSeen(Enumerated(call.listing), t)

\* titles and datetimes stored in a batch file
TitlesIn(f) == {dir[f][k].title : k \in 1 .. Len(dir[f])}

DatesIn(f) == {dir[f][k].datetime : k \in 1 .. Len(dir[f])}

\* C11: for the batch files as persisted, combine_lorient_json makes the same
\* corpus (same surviving records, same order) for every order in which the
\* directory listing can return the files.
C11_MergerDeterminism ==
    call.op = "combine" =>
       \A lorient_files \in Listings : combine_lorient_json(lorient_files) = call.res

\* the corpus does not depend on the listing when no title and no datetime
\* is stored in two different files
C11_HoldsForUnrelatedBatches ==
    (/\ call.op = "combine"
     /\ \A f, g \in FileNames :
           f # g => (TitlesIn(f) \cap TitlesIn(g) = {} /\ DatesIn(f) \cap DatesIn(g) = {}))
       => \A lorient_files \in Listings : combine_lorient_json(lorient_files) = call.res

(* --------------- specification SpecWalk: crawl_all_the961 ------------- *)
\* the two urls sitemap n may list
UrlsOf(n) == {10 * n + 1, 10 * n + 2}

\* the sitemaps around cursor c that the index may list
Window(c) == {n \in (c - 1) .. (c + 2) : n >= 1}

\* the orders in which the index may list the sitemaps of S
Orders(S) == {o \in UNION {[1 .. n -> S] : n \in 0 .. Cardinality(S)} :
                 \A i, j \in DOMAIN o : i # j => o[i] # o[j]}

InitWalk ==
    /\ dateStep = 1
    /\ toc = SeedToc(dateStep)
    /\ lastId = SeedId
    /\ deadIds = {}
    /\ pageKind = <<>>
    /\ call = NoCall
    /\ pm = PmIdle
    /\ dir = <<>>
    /\ NoRuns
    /\ \E c \in 1 .. MaxSitemap :
          /\ index \in Orders(Window(c))
          /\ sitemapUrls = [n \in Window(c) |-> UrlsOf(n)]
          /\ downMaps \in {{}, {0}, {c + 1}}
          /\ toc961 \in [current_sitemap : {c},
                          completed_sitemaps : SUBSET (Window(c) \ {c}),
                          parsed_articles : SUBSET UrlsOf(c)]

CrawlCall ==
    /\ call.op = "none"
    /\ call' = [op |-> "crawl", res |-> crawl_all_the961(toc961)]
    /\ UNCHANGED <<world, toc, pm, dir, maps, toc961, runs>>

NextWalk == CrawlCall

SpecWalk == InitWalk /\ [][NextWalk]_vars

Listed == {index[i] : i \in DOMAIN index}

\* index entries that are neither the cursor nor completed before the walk
Fresh == {n \in Listed : n # toc961.current_sitemap /\ n \notin toc961.completed_sitemaps}

Highest(S) == CHOOSE n \in S : \A m \in S : m <= n

\* C9: after crawl_all_the961, if a fresh entry has a higher sitemap number
\* than the cursor, the numerically highest fresh entry is the new cursor
\* and the old cursor is completed; otherwise the cursor is unchanged.
C9_CursorAdvance ==
    (call.op = "crawl" /\ call.res.tag = "ok") =>
       IF \E n \in Fresh : n > toc961.current_sitemap
       THEN /\ call.res.val.toc.current_sitemap = Highest(Fresh)
            /\ toc961.current_sitemap \in call.res.val.toc.completed_sitemaps
       ELSE call.res.val.toc.current_sitemap = toc961.current_sitemap

\* the code does meet C9 while every sitemap number involved has one digit
C9_HoldsBelowTen ==
    (/\ call.op = "crawl" /\ call.res.tag = "ok"
     /\ \A n \in Listed \cup {toc961.current_sitemap} : n < 10) =>
       IF \E n \in Fresh : n > toc961.current_sitemap
       THEN /\ call.res.val.toc.current_sitemap = Highest(Fresh)
            /\ toc961.current_sitemap \in call.res.val.toc.completed_sitemaps
       ELSE call.res.val.toc.current_sitemap = toc961.current_sitemap

\* position of sitemap n in the index (0: not listed)
PositionOf(n) == IF n \in Listed THEN CHOOSE i \in DOMAIN index : index[i] = n ELSE 0

\* a walk that returned with the cursor on another sitemap
CursorMoved ==
    /\ call.op = "crawl" /\ call.res.tag = "ok"
    /\ call.res.val.toc.current_sitemap # toc961.current_sitemap

\* C14: whenever the walk moves the cursor, the returned parsed_articles is
\* exactly the url set of the new cursor sitemap, in whatever order the
\* index lists the old cursor and the new entries.
C14_SeenSetReset ==
    CursorMoved =>
       call.res.val.toc.parsed_articles = sitemapUrls[call.res.val.toc.current_sitemap]

\* the seen set is reset when the index lists the old cursor before the new
\* one, or not at all
C14_HoldsWithCursorListedFirst ==
    (CursorMoved /\ PositionOf(toc961.current_sitemap)
                       < PositionOf(call.res.val.toc.current_sitemap)) =>
       call.res.val.toc.parsed_articles = sitemapUrls[call.res.val.toc.current_sitemap]

\* all urls of the fresh entries of the index
FreshUrls == UNION {sitemapUrls[n] : n \in Fresh}

\* no sitemap the walk has to fetch is down
NothingFetchedIsDown ==
    /\ 0 \notin downMaps
    /\ (downMaps \cap Listed) \subseteq toc961.completed_sitemaps

\* C15 as claimed: the candidates are the urls of the cursor sitemap that are
\* not in the pre-run parsed_articles, and all urls of every index entry
\* that is neither the cursor nor completed before the run; completed
\* entries are not fetched (one that is down does not fail the walk).
C15_CandidateSet ==
    call.op = "crawl" =>
       /\ call.res.tag = "ok" =>
             call.res.val.articles =
                (sitemapUrls[toc961.current_sitemap] \ toc961.parsed_articles)
                   \cup FreshUrls
       /\ NothingFetchedIsDown => call.res.tag = "ok"

\* C15 as amended: the cursor sitemap contributes only when the index lists
\* it.
C15_CandidateSetAmended ==
    call.op = "crawl" =>
       /\ call.res.tag = "ok" =>
             call.res.val.articles =
                (IF toc961.current_sitemap \in Listed
                 THEN sitemapUrls[toc961.current_sitemap] \ toc961.parsed_articles
                 ELSE {})
                   \cup FreshUrls
       /\ NothingFetchedIsDown => call.res.tag = "ok"

C15_Witness ==
    /\ call.op = "crawl" /\ call.res.tag = "ok"
    /\ toc961.current_sitemap \in Listed
    /\ Cardinality(toc961.parsed_articles) = 1
    /\ Fresh # {}
    /\ \E n \in Listed \cap toc961.completed_sitemaps : n \in downMaps
    /\ call.res.val.articles # {}

(* ---------------- specification Spec: the runs of main() -------------- *)
\* ids whose page may be special in a behaviour of Spec
SpecialIds == {SeedId - StartWidth, SeedId, SeedId + 1}

\* cutoff dates the operator may enter, relative to the seed's date
CutoffOffsets == {-30, -4, 5}

\* lengths of the run of Gone ids right above the seed
GapLengths == {0, RunGap \div 2, RunGap}

\* the ids of the first backward bracket all Gone: a scrape_backwards whose
\* candidates yield no record
GoneBelowSeed == (SeedId - StartWidth) .. (SeedId - 1)

NowStart == dateStep * (SeedId + RunAhead) + 1

InitLorient ==
    /\ site = "lorient"
    /\ dateStep = 1
    /\ toc = SeedToc(dateStep)
    /\ \/ /\ lastId \in {SeedId, SeedId + 1, SeedId + RunAhead - 1}
          /\ deadIds \in {(SeedId + 1) .. (SeedId + g) : g \in GapLengths}
          /\ pageKind \in {<<>>} \cup {(e :> k) : e \in SpecialIds,
                                                  k \in PageKinds \ {"good"}}
       \/ /\ lastId = SeedId
          /\ deadIds = GoneBelowSeed
          /\ pageKind = <<>>
    /\ NoThe961

InitThe961 ==
    /\ site = "the961"
    /\ dateStep = 1
    /\ toc = SeedToc(dateStep)
    /\ lastId = SeedId
    /\ deadIds = {}
    /\ pageKind \in {<<>>, (21 :> "noschema"), (31 :> "neterr")}
    /\ index \in Orders(Window(2))
    /\ sitemapUrls = [n \in Window(2) |-> UrlsOf(n)]
    /\ downMaps \in {{}, {0}, {3}}
    /\ toc961 \in [current_sitemap : {2},
                    completed_sitemaps : {{}, {1}},
                    parsed_articles : {{}, UrlsOf(2)}]

Init ==
    /\ call = NoCall
    /\ pm = PmIdle
    /\ dir = <<>>
    /\ files = <<>>
    /\ run = NoRun
    /\ InitLorient \/ InitThe961
    /\ now = NowStart

\* what a finished run leaves: the batch file if it was written (open(filename,
\* 'w') replaces a file of that name), the run, the file name it wrote and
\* the candidates it submitted
Finish(op, res) ==
    /\ files' = IF res.wrote THEN (res.name :> res.batch) @@ files ELSE files
    /\ run' = [op |-> op, outcome |-> res.outcome, stage |-> res.stage, at |-> now,
               name |-> res.name, ids |-> res.ids, pre |-> toc, pre961 |-> toc961]
    /\ now' = now + 1

ScrapeLatest ==
    /\ site = "lorient"
    /\ now < NowStart + MaxRuns
    /\ \E io_ok \in BOOLEAN :
          \E res \in {scrape_latest(toc, now, io_ok)} :
              /\ toc' = res.toc
              /\ Finish("scrape_latest", res)
    /\ UNCHANGED <<world, call, pm, dir, maps, toc961, site>>

ScrapeBackwards ==
    /\ site = "lorient"
    /\ now < NowStart + MaxRuns
    /\ \E io_ok \in BOOLEAN, c \in CutoffOffsets :
          \E res \in {scrape_backwards(toc, dateStep * SeedId + c, io_ok)} :
              /\ toc' = res.toc
              /\ Finish("scrape_backwards", res)
    /\ UNCHANGED <<world, call, pm, dir, maps, toc961, site>>

The961ScrapeLatest ==
    /\ site = "the961"
    /\ now < NowStart + MaxRuns
    /\ \E io_ok \in BOOLEAN :
          \E res \in {the961_scrape_latest(toc961, now, io_ok)} :
              /\ toc961' = res.toc
              /\ Finish("the961_scrape_latest", res)
    /\ UNCHANGED <<world, call, pm, dir, maps, toc, site>>

\* the site publishes the next article
Publish ==
    /\ site = "lorient"
    /\ lastId < SeedId + RunAhead
    /\ lastId' = lastId + 1
    /\ UNCHANGED <<deadIds, pageKind, dateStep, toc, call, pm, dir, maps, toc961, runs>>

Next == ScrapeLatest \/ ScrapeBackwards \/ The961ScrapeLatest \/ Publish

Spec == Init /\ [][Next]_vars

\* a step that is a completed, successful scrape_latest run
LatestRunSucceeds ==
    /\ run'.at # run.at
    /\ run'.op = "scrape_latest"
    /\ run'.outcome = "ok"

\* C7 as claimed: max_id never decreases, and a successful scrape_latest
\* leaves it equal only when no id beyond it exists.
C7_ForwardNonRegression ==
    [][/\ toc'.max_id >= toc.max_id
       /\ (LatestRunSucceeds /\ toc'.max_id = toc.max_id)
             => \A id \in (toc.max_id + 1) .. lastId : ~Exists(id)]_vars

\* C7 as amended: max_id never decreases, and a successful scrape_latest
\* leaves it equal only when none of the 11 ids right above it exists
\* (the probe at max_id + 1 and its 10 look-ahead probes).
C7_ForwardNonRegressionAmended ==
    [][/\ toc'.max_id >= toc.max_id
       /\ (LatestRunSucceeds /\ toc'.max_id = toc.max_id)
             => \A i \in 1 .. (LookAheadSpan + 1) : ~Exists(toc.max_id + i)]_vars

C7_Witness ==
    /\ run.op = "scrape_latest" /\ run.outcome = "ok"
    /\ toc.max_id = run.pre.max_id
    /\ \E id \in (toc.max_id + 1) .. lastId : Exists(id)

\* C8: a run of scrape_latest, scrape_backwards or the961 scrape_latest that
\* fails in the boundary search / sitemap walk, the harvest, the timing
\* summary or the batch file write leaves both checkpoints as they were
\* before the run.
C8_CheckpointOnlyAtEnd ==
    run.outcome = "failed" => (toc = run.pre /\ toc961 = run.pre961)

C8_Witness ==
    /\ run.op = "scrape_latest" /\ run.outcome = "failed" /\ run.stage = "write"
    /\ find_latest(run.pre.max_id).tag = "ok"
    /\ find_latest(run.pre.max_id).val > run.pre.max_id

\* C10: over scrape_backwards runs with arbitrary cutoffs neither min_id nor
\* min_datetime ever increases.
C10_BackwardFrontierMonotone ==
    [][toc'.min_id <= toc.min_id /\ toc'.min_datetime <= toc.min_datetime]_vars

\* min_id alone never increases
C10_MinIdNeverIncreases == [][toc'.min_id <= toc.min_id]_vars

\* a step that is a run writing its batch file
RunWrites == now' # now /\ run'.name # <<>>

\* C18: over any sequence of runs no run writes a batch file name that an
\* earlier run has written.
C18_BatchImmutability ==
    [][RunWrites => run'.name \notin DOMAIN files]_vars

\* every run but a scrape_latest that leaves max_id where it was writes a
\* new file name
C18_HoldsWhenFrontierMoves ==
    [][(RunWrites /\ ~(run'.op = "scrape_latest" /\ toc'.max_id = toc.max_id))
          => run'.name \notin DOMAIN files]_vars

\* C20: the frontiers move only outward and only by a successful run that
\* submitted every id it moved past: a scrape_latest run every id from the
\* old max_id to the new one, a scrape_backwards run every id from the new
\* min_id up to (excluding) the old one.  So over any sequence of runs no
\* id between the initial and the final frontier is left unsubmitted.
C20_ContiguousCoverage ==
    [][/\ toc'.max_id >= toc.max_id
       /\ toc'.min_id <= toc.min_id
       /\ toc'.max_id # toc.max_id =>
             /\ now' # now /\ run'.op = "scrape_latest" /\ run'.outcome = "ok"
             /\ (toc.max_id .. toc'.max_id) \subseteq run'.ids
       /\ toc'.min_id # toc.min_id =>
             /\ now' # now /\ run'.op = "scrape_backwards" /\ run'.outcome = "ok"
             /\ (toc'.min_id .. (toc.min_id - 1)) \subseteq run'.ids]_vars

\* the second of two successful runs, a scrape_latest that moved max_id past
\* more than one id, all of them submitted
C20_Witness ==
    /\ run.op = "scrape_latest" /\ run.outcome = "ok"
    /\ now = NowStart + MaxRuns
    /\ run.pre # SeedToc(dateStep)
    /\ toc.max_id > run.pre.max_id + 1
    /\ (run.pre.max_id .. toc.max_id) \subseteq run.ids

\* the scraper whose parse_many a run calls
ScraperOf(op) == IF op = "the961_scrape_latest" THEN "the961" ELSE "lorient"

\* a step that is a run whose boundary search or sitemap walk succeeded and
\* whose parse_many returned an empty list: no candidate, or no candidate
\* that yields a record
ZeroRecordRun ==
    /\ now' # now
    /\ run'.stage # "search"
    /\ parse_many(ScraperOf(run'.op), run'.ids) = Ret({})

\* C21: a run whose harvest yields zero records completes successfully: the
\* performance summary does not fail, an empty batch file is written and
\* the checkpoint is saved (for the961 the one the sitemap walk returned).
C21_ZeroRecordRunCompletes ==
    [][ZeroRecordRun =>
          /\ run'.outcome = "ok"
          /\ run'.name \in DOMAIN files' /\ files'[run'.name] = {}
          /\ run'.op = "the961_scrape_latest" =>
                toc961' = crawl_all_the961(toc961).val.toc]_vars

\* what the runs do instead: min() of the empty timing list raises, so no
\* batch file is written and no checkpoint is saved
C21_ZeroRecordRunFailsInSummary ==
    [][ZeroRecordRun =>
          /\ run'.outcome = "failed" /\ run'.stage = "timing"
          /\ files' = files /\ toc' = toc /\ toc961' = toc961]_vars

\* the sitemap walk on the checkpoint as it is now saved
WalkAgain == crawl_all_the961(toc961)

\* C22: after a successful the961 scrape_latest, with the sitemap index and
\* the sitemaps unchanged, crawl_all_the961 on the saved checkpoint returns
\* no candidate and a checkpoint with the same current_sitemap,
\* completed_sitemaps and parsed_articles.
C22_SitemapWalkIdempotence ==
    (run.op = "the961_scrape_latest" /\ run.outcome = "ok") =>
        /\ WalkAgain.tag = "ok"
        /\ WalkAgain.val.articles = {}
        /\ WalkAgain.val.toc = toc961

\* a successful run that moved the cursor to a higher sitemap and harvested
\* urls, followed by a walk that finds nothing and changes nothing
C22_Witness ==
    /\ run.op = "the961_scrape_latest" /\ run.outcome = "ok"
    /\ run.ids # {}
    /\ toc961.current_sitemap # run.pre961.current_sitemap
    /\ run.pre961.current_sitemap \in toc961.completed_sitemaps
    /\ WalkAgain.tag = "ok" /\ WalkAgain.val.articles = {}
    /\ WalkAgain.val.toc = toc961

\* the same for the walk alone, under SpecWalk: a second walk on the
\* checkpoint a walk returned finds nothing and returns that checkpoint
C22_HoldsForEveryWalk ==
    (call.op = "crawl" /\ call.res.tag = "ok") =>
        LET again == crawl_all_the961(call.res.val.toc)
        IN  /\ again.tag = "ok"
            /\ again.val.articles = {}
            /\ again.val.toc = call.res.val.toc

\* a step that is a lorient run whose parse_many returned a record without
\* 'datetime'
UndatedRecordRun ==
    /\ now' # now
    /\ run'.stage # "search"
    /\ run'.op # "the961_scrape_latest"
    /\ LET harvest == parse_many("lorient", run'.ids)
       IN  harvest.tag = "ok" /\ \E a \in harvest.val : ~a.dated

\* what such a record does to its run: articles_to_json raises on it before
\* the batch file is opened, so neither the batch nor toc.json is written
C23_UndatedRecordFailsTheWrite ==
    [][UndatedRecordRun =>
          /\ run'.outcome = "failed" /\ run'.stage = "write"
          /\ files' = files /\ toc' = toc]_vars

(* ------- specification SpecCap: find_latest at its offset cap --------- *)
\* the offsets the first loop of find_latest probes: 1, 2, 4, ..., 2^20
RECURSIVE offsets_from(_)
offsets_from(searcher) ==
    IF searcher * 2 > CapOffset THEN {}
    ELSE {searcher} \cup offsets_from(searcher * 2)

DoublingOffsets == offsets_from(1)

\* the ids strictly between the last two doubling probes
LastStride == (SeedId + (FallbackOffset \div 2) + 1) .. (SeedId + FallbackOffset - 1)

\* The newest article lies 2^20 ids or more beyond the seed.  Either one of
\* the probed ids may be Gone, the request for the id at the offset cap may
\* fail, and the page of the seed article, the first candidate of the
\* harvest, has no canonical link (the harvest ends at its first worker);
\* or every page is an ordinary article, with the ids of the last stride
\* Gone (the harvest of the 2^20 + 1 candidates runs to its end).
InitCap ==
    /\ site = "lorient"
    /\ dateStep = 1
    /\ toc = SeedToc(dateStep)
    /\ \/ /\ lastId \in {SeedId + FallbackOffset + k : k \in 0 .. CapAhead}
          /\ deadIds \in {{}} \cup {{SeedId + o} : o \in DoublingOffsets}
          /\ pageKind \in {(SeedId :> "nocanon"),
                           (SeedId :> "nocanon") @@ (SeedId + CapOffset :> "neterr")}
       \/ /\ lastId = SeedId + FallbackOffset + CapAhead
          /\ deadIds = LastStride
          /\ pageKind = <<>>
    /\ call = NoCall
    /\ pm = PmIdle
    /\ dir = <<>>
    /\ files = <<>>
    /\ run = NoRun
    /\ NoThe961
    /\ now = NowStart

NextCap == FindLatestCall \/ ScrapeLatest

SpecCap == InitCap /\ [][NextCap]_vars

\* the probe at id is Found, directly or through the look-ahead
ProbeFound(id) ==
    \/ HeadStatus(id) \in {"200", "301"}
    \/ /\ HeadStatus(id) = "404"
       /\ \E i \in 1 .. LookAheadSpan :
             /\ HeadStatus(id + i) \in {"200", "301"}
             /\ \A k \in 1 .. (i - 1) : HeadStatus(id + k) = "404"

AllDoublingProbesFound(start_id) == \A o \in DoublingOffsets : ProbeFound(start_id + o)

\* C16: when every doubling probe at the offsets 1, 2, 4, ..., 2^20 is Found
\* (directly or through the look-ahead), find_latest returns start_id + 2^20
\* (the id at offset 2^21 is not probed: a failing request there changes
\* nothing; no refinement: the result is not the last existing id), and
\* scrape_latest does not fail in the search but hands every id from max_id
\* to max_id + 2^20 to the harvest and, when the run succeeds, stores
\* max_id + 2^20 as the new max_id.
C16_CapFallback ==
    /\ (call.op = "find_latest" /\ AllDoublingProbesFound(call.start))
          => call.res = Ret(call.start + FallbackOffset)
    /\ (run.op = "scrape_latest" /\ AllDoublingProbesFound(run.pre.max_id))
          => /\ run.stage # "search"
             /\ run.ids = run.pre.max_id .. (run.pre.max_id + FallbackOffset)
             /\ run.outcome = "ok" => toc.max_id = run.pre.max_id + FallbackOffset

C16_Witness ==
    /\ AllDoublingProbesFound(SeedId)
    /\ \E o \in DoublingOffsets : HeadStatus(SeedId + o) = "404"
    /\ HeadStatus(SeedId + CapOffset) = "error"
    /\ lastId > SeedId + FallbackOffset
    /\ call.op = "find_latest" /\ call.res = Ret(SeedId + FallbackOffset)
    /\ run.op = "scrape_latest" /\ run.stage = "harvest"
    /\ run.ids = SeedId .. (SeedId + FallbackOffset)

=============================================================================
